---- MODULE Spec2Model ----
(***************************************************************************)
(* Model of mailjet_state_reporter (src/mailjet_state_reporter/__init__.py) *)
(*                                                                         *)
(* The program is a batch job.  One run of main() loads the configuration  *)
(* and the state file, fetches the credential directory, walks the list of *)
(* subaccount reports (fetch, compose, send, advance the watermark in      *)
(* memory) and finally rewrites the state file.  The provider (Mailjet),   *)
(* the clock and the files on disk are the environment: their answers are  *)
(* inputs drawn from small sets.  An exception that no handler of the      *)
(* source catches ends the run at the place where it is raised.            *)
(***************************************************************************)
EXTENDS Integers, Sequences, FiniteSets, TLC

VARIABLES
    file,             \* the state file (SYNC_STATE) on disk
    config_file,      \* subaccount_reports of the configuration file (CONFIG_FILE) on disk
    runNo,            \* number of runs started so far
    pc,               \* "idle" | "loop" | "write" | "done" | "aborted"
    exitReason,       \* why the last run ended
    config,           \* subaccount_reports of the loaded configuration, validated
    current_ts,       \* main: current_ts
    day_of_week,      \* main: day_of_week (ISO weekday 1..7)
    state,            \* main: state (the in-memory watermark mapping, or None)
    subaccount_data,  \* main: subaccount_data (names found in the key directory)
    idx,              \* index of the next entry of the processing loop
    log,              \* per entry of this run: what its cycle did
    lastEnd,          \* history: per subaccount id, end of the last window dispatched
    retry,            \* history: per subaccount id, start of a failed, not yet re-sent window
    writes,           \* history: number of times this run opened the state file for writing
    fatal,            \* history: the fatal condition this run met before the loop, or "none"
    call,             \* unit harness: the arguments of the function under test
    ret               \* unit harness: its result

vars == <<file, config_file, runNo, pc, exitReason, config, current_ts, day_of_week, state,
          subaccount_data, idx, log, lastEnd, retry, writes, fatal, call, ret>>

runVars == <<file, config_file, runNo, pc, exitReason, config, current_ts, day_of_week, state,
             subaccount_data, idx, log, lastEnd, retry, writes, fatal>>

(***************************************************************************)
(* Bounds of the model                                                     *)
(***************************************************************************)
MaxRuns == 2
MaxTime == 2
NumSub == 2
MaxRecs == 1
MaxCount == 450
MaxHeld == 4

(***************************************************************************)
(* Program constants                                                       *)
(***************************************************************************)
BATCH_LIMIT == 200
SecondsPerDay == 86400
default_max_report_days == 1

Min(a, b) == IF a < b THEN a ELSE b
Max(a, b) == IF a > b THEN a ELSE b

EmptyMap == [x \in {} |-> 0]

\* dict.get(key, default)
Get(m, k, d) == IF k \in DOMAIN m THEN m[k] ELSE d

\* m[k] = v on a dict
Put(m, k, v) == [x \in (DOMAIN m) \cup {k} |-> IF x = k THEN v ELSE m[x]]

(***************************************************************************)
(* Paginated fetcher: get_mailjet_data_list                                *)
(*                                                                         *)
(* A server is described by                                                *)
(*   probe    : what the count-only request meets                          *)
(*   count    : the Count the probe reports                                *)
(*   recs     : the records the list endpoint holds, in server order       *)
(*   cap      : the most records the server puts in one page               *)
(*   failAt   : the page request (1, 2, ...) that fails, 0 for none        *)
(*   failKind : how that page request fails                                *)
(***************************************************************************)
ProbeKinds == {"ok", "transport_error", "not_json", "no_count", "not_object"}
PageFailKinds == {"transport_error", "not_json", "no_count"}

\* The body of one page: the server answers Limit/Offset with at most
\* Min(Limit, cap) records starting at Offset.
PageCount(srv, offset) ==
    Max(0, Min(Min(BATCH_LIMIT, srv.cap), Len(srv.recs) - offset))

PageData(srv, offset) ==
    SubSeq(srv.recs, offset + 1, offset + PageCount(srv, offset))

\* Mutant of LoopEnds: a page shorter than the batch size ends the loop
LoopEndsOnShortPage(batch_count, offset, count) ==
    batch_count < BATCH_LIMIT \/ offset >= count

\* Mutant of LoopEnds: the probed count is not looked at
LoopEndsIgnoringProbe(batch_count, offset, count) == batch_count = 0

\* Mutant of LoopEnds: the offset must pass the count
LoopEndsPastCount(batch_count, offset, count) == batch_count = 0 \/ offset > count

\* line 74: if not batch_count or offset >= count: break
LoopEnds(batch_count, offset, count) == batch_count = 0 \/ offset >= count

\* The while True loop of lines 67-75.  No handler encloses it: a failing
\* page request leaves the function as an exception.
RECURSIVE PageLoop(_, _, _, _, _)
PageLoop(srv, count, offset, data, reqs) ==
    LET n == Len(reqs) + 1
        reqs2 == Append(reqs, offset)
    IN  IF srv.failAt = n
        THEN [kind |-> "raise", data |-> <<>>, reqs |-> reqs2, error |-> srv.failKind]
        ELSE LET batch_count == PageCount(srv, offset)
                 data2 == data \o PageData(srv, offset)
                 offset2 == offset + batch_count
             IN  IF LoopEnds(batch_count, offset2, count)
                 THEN [kind |-> "list", data |-> data2, reqs |-> reqs2, error |-> "none"]
                 ELSE PageLoop(srv, count, offset2, data2, reqs2)

\* The result is [kind, data, reqs, error]: kind "list" is a returned list,
\* "none" the returned None, "raise" an exception leaving the function.
\* reqs are the offsets of the page requests issued.
get_mailjet_data_list(srv) ==
    CASE srv.probe \in {"transport_error", "not_json", "no_count"} ->
            [kind |-> "none", data |-> <<>>, reqs |-> <<>>, error |-> srv.probe]
      [] srv.probe = "not_object" ->
            \* json.loads gives a list, a number or null: ["Count"] raises
            \* TypeError, which the except clause does not name
            [kind |-> "raise", data |-> <<>>, reqs |-> <<>>, error |-> srv.probe]
      [] OTHER -> PageLoop(srv, srv.count, 0, <<>>, <<>>)

(***************************************************************************)
(* Report compositor: the loop of main over the fetched messages           *)
(*                                                                         *)
(* A raw record is a function from the provider's field names that are     *)
(* present in it to their values.                                          *)
(***************************************************************************)
MESSAGE_FIELDS ==
    [ID |-> "id", ArrivedAt |-> "date_time", ContactAlt |-> "contact",
     Status |-> "state", Subject |-> "subject"]

REPORT_DETAILS_FIELDS == {"date_time", "contact", "subject"}

RawField(header) == CHOOSE f \in DOMAIN MESSAGE_FIELDS : MESSAGE_FIELDS[f] = header

\* {header: message[field] for field, header in MESSAGE_FIELDS.items() if field in message}
DetailRow(message) ==
    [h \in {MESSAGE_FIELDS[f] : f \in (DOMAIN MESSAGE_FIELDS) \cap (DOMAIN message)}
        |-> message[RawField(h)]]

\* Mutant of ComposeStep: an itemized record is not counted
ComposeStepCountsUnlisted(acc, message, report_details_fields) ==
    IF acc.kind = "raise" THEN acc
    ELSE IF "Status" \notin DOMAIN message
    THEN [acc EXCEPT !.kind = "raise"]
    ELSE LET message_status == message["Status"]
         IN  IF message_status \in report_details_fields
             THEN [acc EXCEPT !.details =
                      Put(acc.details, message_status,
                          Append(Get(acc.details, message_status, <<>>),
                                 DetailRow(message)))]
             ELSE [acc EXCEPT !.stats =
                      Put(acc.stats, message_status,
                          Get(acc.stats, message_status, 0) + 1)]

\* One pass of the for loop of lines 444-455 over an accumulator
\* [kind, stats, details]; message["Status"] raises KeyError when absent.
ComposeStep(acc, message, report_details_fields) ==
    IF acc.kind = "raise" THEN acc
    ELSE IF "Status" \notin DOMAIN message
    THEN [acc EXCEPT !.kind = "raise"]
    ELSE LET message_status == message["Status"]
             details2 ==
                 IF message_status \in report_details_fields
                 THEN Put(acc.details, message_status,
                          Append(Get(acc.details, message_status, <<>>),
                                 DetailRow(message)))
                 ELSE acc.details
             stats2 == Put(acc.stats, message_status,
                           Get(acc.stats, message_status, 0) + 1)
         IN  [kind |-> "ok", stats |-> stats2, details |-> details2]

RECURSIVE ComposeFrom(_, _, _)
ComposeFrom(acc, messages, report_details_fields) ==
    IF messages = <<>> THEN acc
    ELSE ComposeFrom(ComposeStep(acc, Head(messages), report_details_fields),
                     Tail(messages), report_details_fields)

Compose(messages, report_details_fields) ==
    ComposeFrom([kind |-> "ok", stats |-> EmptyMap, details |-> EmptyMap],
                messages, report_details_fields)

\* gen_bounce_data_html reads message[field] for every field of
\* REPORT_DETAILS_FIELDS of every detail row: KeyError when a row lacks one.
BounceHtmlRaises(message_details) ==
    \E st \in DOMAIN message_details :
        \E i \in 1..Len(message_details[st]) :
            ~(REPORT_DETAILS_FIELDS \subseteq DOMAIN message_details[st][i])

(***************************************************************************)
(* Configuration: profiles and subaccount report entries                   *)
(*                                                                         *)
(* A key that the YAML document does not hold has the value "absent".      *)
(***************************************************************************)
RequiredProfileKeys == {"template_id", "subject", "from_email", "from_name"}

profiles ==
    [std    |-> [keys |-> RequiredProfileKeys, report_in_detail |-> {"bounce"},
                 skip_if_no_data |-> "absent", skip_if_no_details |-> "absent"],
     quiet  |-> [keys |-> RequiredProfileKeys, report_in_detail |-> {"bounce"},
                 skip_if_no_data |-> "true", skip_if_no_details |-> "absent"],
     full   |-> [keys |-> RequiredProfileKeys, report_in_detail |-> {"bounce", "sent"},
                 skip_if_no_data |-> "absent", skip_if_no_details |-> "absent"],
     plain  |-> [keys |-> RequiredProfileKeys, report_in_detail |-> {},
                 skip_if_no_data |-> "absent", skip_if_no_details |-> "absent"],
     broken |-> [keys |-> RequiredProfileKeys \ {"from_name"}, report_in_detail |-> {},
                 skip_if_no_data |-> "absent", skip_if_no_details |-> "absent"]]

\* lines 314-335: profile["valid"] = True only with all four keys
ProfileValid(profile_name) == RequiredProfileKeys \subseteq profiles[profile_name].keys

\* report_days masks, as the set of the digits the string holds
report_days_default == "01234"

\* Mutant of MaskDigits: every day is a report day
MaskDigitsEveryDay(mask) == 1..7

MaskDigits(mask) ==
    CASE mask = "01234" -> {0, 1, 2, 3, 4}
      [] mask = "135"   -> {1, 3, 5}
      [] OTHER          -> {}

\* lines 343-390: the entry as the validation loop leaves it.  valid is the
\* "valid" key; report_days is set (line 370) once the profile checks passed.
ValidateSubaccount(entry) ==
    LET profile_ok == /\ entry.name # "absent"
                      /\ entry.profile # "absent"
                      /\ entry.profile \in DOMAIN profiles
                      /\ ProfileValid(entry.profile)
        recipients_ok == entry.recipients = "ok"
    IN  [entry EXCEPT
            !.report_days = IF profile_ok /\ entry.report_days = "absent"
                            THEN report_days_default ELSE entry.report_days,
            !.valid = profile_ok /\ recipients_ok]

(***************************************************************************)
(* Report dispatcher: send_report                                          *)
(***************************************************************************)
HttpOutcomes == {"200", "500", "transport_error"}

\* Mutant of SkipFlag: the profile's setting is never looked up
SkipFlagOwnOnly(subaccount, key) == subaccount[key] = "true"

\* subaccount.get(key, subaccount["profile_details"].get(key, False))
SkipFlag(subaccount, key) ==
    IF subaccount[key] # "absent"
    THEN subaccount[key] = "true"
    ELSE profiles[subaccount.profile][key] = "true"

\* The result is [kind, posted]: kind "true"/"false" is the returned bool,
\* "raise" an exception leaving the function; posted tells whether the POST
\* to the send endpoint was issued.
send_report(subaccount, message_stats, message_details, http) ==
    LET skip_if_no_details == SkipFlag(subaccount, "skip_if_no_details")
        skip_if_no_data == SkipFlag(subaccount, "skip_if_no_data")
    IN  IF \/ skip_if_no_details /\ DOMAIN message_details = {}
           \/ skip_if_no_data /\ DOMAIN message_stats = {}
        THEN [kind |-> "false", posted |-> FALSE]
        ELSE IF BounceHtmlRaises(message_details)
        THEN [kind |-> "raise", posted |-> FALSE]
        ELSE IF http = "200"
        THEN [kind |-> "true", posted |-> TRUE]
        ELSE [kind |-> "false", posted |-> TRUE]

(***************************************************************************)
(* Inputs of a run: the environment main() reads                           *)
(***************************************************************************)
Names == {"a", "b"}

\* The provider-assigned ID of a subaccount, as str() gives it
IdOf(name) == IF name = "a" THEN "101" ELSE "102"

Ids == {IdOf(n) : n \in Names}

\* The clock: run k of the model happens at midnight UTC of day FirstDay + k.
\* 1970-01-01 was a Thursday, so day 4 is a Monday, day 5 a Tuesday, ...
FirstDay == 3

TimeOfDay(k) == (FirstDay + k) * SecondsPerDay

\* datetime.now().isoweekday(), line 268
IsoWeekday(ts) == (((ts \div SecondsPerDay) + 3) % 7) + 1

ClockReadings == {TimeOfDay(k) : k \in 1..MaxTime}

Entry(name, profile, recipients, report_days, no_data, no_details) ==
    [name |-> name, profile |-> profile, recipients |-> recipients,
     report_days |-> report_days, skip_if_no_data |-> no_data,
     skip_if_no_details |-> no_details, valid |-> FALSE]

\* Entries of subaccount_reports the runs draw from: three well-formed ones
\* and two malformed ones (no name; a profile that does not exist)
Entries ==
    { Entry("a", "std", "ok", "absent", "absent", "absent"),
      Entry("b", "quiet", "ok", "absent", "absent", "absent"),
      Entry("b", "std", "ok", "135", "absent", "true"),
      Entry("absent", "std", "ok", "absent", "absent", "absent"),
      Entry("a", "ghost", "ok", "absent", "absent", "absent") }

SubaccountLists == UNION {[1..n -> Entries] : n \in 0..NumSub}

\* What stops main() before it reads the state file or right after
EnvKinds == {"ok", "no_credentials", "no_paths", "config_missing", "config_empty",
             "no_profiles"}

FullRecord(id, status) ==
    [ID |-> id, ArrivedAt |-> "2024-01-01T00:00:00", ContactAlt |-> "x@y",
     Status |-> status, Subject |-> "s"]

Without(message, field) == [f \in (DOMAIN message) \ {field} |-> message[f]]

\* Messages the list endpoint answers with in a run
Messages ==
    { FullRecord(1, "bounce"), FullRecord(1, "sent"),
      Without(FullRecord(1, "bounce"), "Subject") }

MessageLists == UNION {[1..n -> Messages] : n \in 0..MaxRecs}

Server(probe, count, recs, cap, failAt, failKind) ==
    [probe |-> probe, count |-> count, recs |-> recs, cap |-> cap,
     failAt |-> failAt, failKind |-> failKind]

\* A server whose probe fails, and a stable server holding recs of which
\* page request failAt (0: none) fails
FailingProbe(kind) == Server(kind, 0, <<>>, BATCH_LIMIT, 0, "none")

StableServer(recs, failAt) ==
    Server("ok", Len(recs), recs, BATCH_LIMIT, failAt,
           IF failAt = 0 THEN "none" ELSE "transport_error")

MessageServers ==
    {FailingProbe(k) : k \in {"transport_error", "not_object"}}
    \cup {StableServer(l, f) : l \in MessageLists, f \in {0, 1}}

KeyRecord(name) ==
    [Name |-> name, ID |-> IdOf(name), APIKey |-> "k", SecretKey |-> "s"]

\* Answers of the key directory: both subaccounts, or "b" no longer there
KeyLists == { <<KeyRecord("a")>>, <<KeyRecord("a"), KeyRecord("b")>> }

DirectoryServers ==
    {FailingProbe("transport_error"), FailingProbe("not_object")}
    \cup {StableServer(l, 0) : l \in KeyLists}
    \cup {StableServer(<<>>, 1)}

\* get_subaccount_data: None, an exception, or the dict keyed by Name
get_subaccount_data(srv) ==
    LET r == get_mailjet_data_list(srv)
    IN  IF r.kind # "list"
        THEN [kind |-> r.kind, data |-> EmptyMap]
        ELSE [kind |-> "dict",
              data |-> [n \in {r.data[i].Name : i \in 1..Len(r.data)} |-> IdOf(n)]]

\* json.load of the state file, lines 293-304
LoadState(f) ==
    CASE f.kind = "missing" -> [kind |-> "map", map |-> EmptyMap]
      [] f.kind = "null"    -> [kind |-> "none", map |-> EmptyMap]
      [] f.kind \in {"empty", "partial"} -> [kind |-> "raise", map |-> EmptyMap]
      [] OTHER              -> [kind |-> "map", map |-> f.map]

\* Mutant of DumpState: only the entries advanced in this run are written
DumpStateAdvancedOnly(st) ==
    IF st.kind = "none"
    THEN [kind |-> "null", map |-> EmptyMap]
    ELSE [kind |-> "map",
          map |-> [id \in {x \in DOMAIN st.map : st.map[x] = current_ts} |-> st.map[id]]]

\* json.dump of the in-memory state, lines 473-477
DumpState(st) ==
    IF st.kind = "none"
    THEN [kind |-> "null", map |-> EmptyMap]
    ELSE [kind |-> "map", map |-> st.map]

(***************************************************************************)
(* One pass of the processing loop of main, lines 399-470                  *)
(***************************************************************************)
\* line 312
default_last_ts(ts) == ts - SecondsPerDay * default_max_report_days

\* Mutant of WindowStart: the loaded watermark is ignored
WindowStartAlwaysDefault(st, id, ts) == default_last_ts(ts)

\* line 420: last_ts = state.get(subaccount_id, default_last_ts)
WindowStart(st, id, ts) == Get(st.map, id, default_last_ts(ts))

\* Mutant of DispatchAdvances: the result of send_report is not looked at
DispatchAdvancesAlways(sent) == TRUE

\* lines 458-470: the watermark is set only past "if not send_report(...): continue"
DispatchAdvances(sent) == sent.kind = "true"

Outcome(out, id, last_ts, n, posted, st) ==
    [out |-> out, id |-> id, last_ts |-> last_ts, n |-> n, posted |-> posted,
     state |-> st]

\* What the cycle of entry sub does, given the answers srv of the list
\* endpoint and http of the send endpoint.  out is
\*   "invalid" | "unscheduled" | "missing"      skipped (lines 400-415)
\*   "fetch_failed"                             the fetcher returned None
\*   "policy_skip" | "send_failed" | "sent"     what send_report did
\*   "raise:..."                                an exception left the loop
Cycle(sub, st, ts, dow, dir, srv, http) ==
    IF ~sub.valid
    THEN \* line 401 evaluates subaccount["name"] for the log line
         IF sub.name = "absent"
         THEN Outcome("raise:name", "-", 0, 0, FALSE, st)
         ELSE Outcome("invalid", "-", 0, 0, FALSE, st)
    ELSE IF dow \notin MaskDigits(sub.report_days)
    THEN Outcome("unscheduled", "-", 0, 0, FALSE, st)
    ELSE IF sub.name \notin DOMAIN dir
    THEN Outcome("missing", "-", 0, 0, FALSE, st)
    ELSE LET id == dir[sub.name]
         IN  IF st.kind = "none"
             THEN \* state is None: state.get raises AttributeError
                  Outcome("raise:state", id, 0, 0, FALSE, st)
             ELSE
             LET last_ts == WindowStart(st, id, ts)
                 fetched == get_mailjet_data_list(srv)
                 n == Len(fetched.data)
                 composed == Compose(fetched.data, profiles[sub.profile].report_in_detail)
                 sent == send_report(sub, composed.stats, composed.details, http)
             IN  CASE fetched.kind = "none" ->
                        Outcome("fetch_failed", id, last_ts, 0, FALSE, st)
                   [] fetched.kind = "raise" ->
                        Outcome("raise:fetch", id, last_ts, 0, FALSE, st)
                   [] fetched.kind = "list" /\ composed.kind = "raise" ->
                        Outcome("raise:compose", id, last_ts, n, FALSE, st)
                   [] fetched.kind = "list" /\ composed.kind = "ok"
                      /\ sent.kind = "raise" ->
                        Outcome("raise:send", id, last_ts, n, FALSE, st)
                   [] OTHER ->
                        Outcome(IF sent.kind = "true" THEN "sent"
                                ELSE IF sent.posted THEN "send_failed"
                                ELSE "policy_skip",
                                id, last_ts, n, sent.posted,
                                IF DispatchAdvances(sent)
                                THEN [st EXCEPT !.map = Put(st.map, id, ts)]
                                ELSE st)

Raised(out) == out \in {"raise:name", "raise:state", "raise:fetch", "raise:compose",
                        "raise:send"}

\* The cycle got as far as a window and did not dispatch the report
Failed(out) == out \in {"fetch_failed", "raise:fetch", "raise:compose", "raise:send",
                        "policy_skip", "send_failed"}

NoRetry == [start |-> 0, at |-> 0, source |-> "none"]

\* What the log keeps of a cycle: its outcome, the subaccount id, the start
\* of its window, the number of records fetched, and the failed window of
\* this id that was pending when the cycle began
LogEntry(c, pending) ==
    [out |-> c.out, id |-> c.id, last_ts |-> c.last_ts, n |-> c.n,
     prior |-> Get(pending, c.id, NoRetry)]

Remove(m, k) == [x \in (DOMAIN m) \ {k} |-> m[x]]

\* Where the start of a window came from: the entry of the state file, the
\* default of line 312, or a watermark advanced earlier in the same run
WindowSource(f, st, id) ==
    IF id \notin DOMAIN st.map THEN "default"
    ELSE IF f.kind = "map" /\ id \in DOMAIN f.map /\ f.map[id] = st.map[id]
    THEN "file" ELSE "memory"

(***************************************************************************)
(* The runs                                                                *)
(***************************************************************************)
NoState == [kind |-> "map", map |-> EmptyMap]

\* State files found on disk before the first run
InitialFiles ==
    { [kind |-> k, map |-> EmptyMap] : k \in {"missing", "empty", "null"} }
    \cup { [kind |-> "map", map |-> [id \in S |-> t]] :
             S \in SUBSET Ids, t \in ClockReadings }

IdleCall == [fn |-> "none"]

Init ==
    /\ file \in InitialFiles
    /\ config_file \in SubaccountLists
    /\ runNo = 0
    /\ pc = "idle"
    /\ exitReason = "none"
    /\ config = <<>>
    /\ current_ts = 0
    /\ day_of_week = 1
    /\ state = NoState
    /\ subaccount_data = EmptyMap
    /\ idx = 1
    /\ log = <<>>
    /\ lastEnd = EmptyMap
    /\ retry = EmptyMap
    /\ writes = 0
    /\ fatal = "none"
    /\ call = IdleCall
    /\ ret = IdleCall

\* The run ends before the loop: nothing but the exit is kept.  cond is the
\* fatal condition the run met ("none": an exception only).
EndEarly(reason, cond, now) ==
    /\ pc' = "aborted"
    /\ exitReason' = reason
    /\ fatal' = cond
    /\ day_of_week' = IsoWeekday(now)
    /\ config' = <<>>
    /\ current_ts' = 0
    /\ state' = NoState
    /\ subaccount_data' = EmptyMap

\* Mutant of DirectoryFatal: the result of the directory fetch is not tested
DirectoryFatalNever(dir) == FALSE

\* line 394: if (subaccount_data := get_subaccount_data(...)) is None: sys.exit(1)
DirectoryFatal(dir) == dir.kind = "none"

\* main() from its first line to the start of the processing loop,
\* lines 268-396
StartRun ==
    /\ pc \in {"idle", "done", "aborted"}
    /\ runNo < MaxRuns
    /\ runNo' = runNo + 1
    /\ idx' = 1
    /\ log' = <<>>
    /\ writes' = 0
    /\ UNCHANGED <<file, config_file, lastEnd, retry, call, ret>>
    /\ \E env \in EnvKinds, now \in ClockReadings :
         IF env \in {"no_credentials", "no_paths", "config_missing", "config_empty"}
         THEN EndEarly("exit:" \o env, env, now)
         ELSE LET loaded == LoadState(file)
                  reports == config_file
              IN  IF loaded.kind = "raise"
                  THEN EndEarly("raise:state_json",
                                IF env = "no_profiles" THEN env
                                ELSE IF reports = <<>> THEN "no_subaccounts"
                                ELSE "none", now)
                  ELSE IF env = "no_profiles"
                  THEN EndEarly("exit:no_profiles", env, now)
                  ELSE IF reports = <<>>
                  THEN EndEarly("exit:no_subaccounts", "no_subaccounts", now)
                  ELSE \E dsrv \in DirectoryServers :
                         LET dir == get_subaccount_data(dsrv)
                         IN  IF DirectoryFatal(dir)
                             THEN EndEarly("exit:directory", "directory", now)
                             ELSE IF dir.kind = "raise"
                             THEN EndEarly("raise:directory", "directory", now)
                             ELSE
                             /\ pc' = "loop"
                             /\ exitReason' = "none"
                             /\ fatal' = IF dir.kind = "dict" THEN "none"
                                         ELSE "directory"
                             /\ day_of_week' = IsoWeekday(now)
                             /\ current_ts' = now
                             /\ state' = loaded
                             /\ config' = [i \in 1..Len(reports) |->
                                             ValidateSubaccount(reports[i])]
                             /\ subaccount_data' = dir.data

\* Mutant of FileAfterCycle: the state is saved after every subaccount
FileAfterCyclePerSubaccount(f, st) == DumpState(st)

\* The loop of lines 399-470 never opens the state file: the only
\* open(SYNC_STATE, "w") is line 473, after the loop
FileAfterCycle(f, st) == f

\* One pass of the loop of lines 399-470 over the entry config[idx]
ProcessSubaccount ==
    /\ pc = "loop"
    /\ idx <= Len(config)
    /\ \E srv \in MessageServers, http \in HttpOutcomes :
         LET c == Cycle(config[idx], state, current_ts, day_of_week,
                        subaccount_data, srv, http)
         IN  /\ log' = Append(log, LogEntry(c, retry))
             /\ state' = c.state
             /\ file' = FileAfterCycle(file, c.state)
             /\ lastEnd' = IF c.out = "sent" THEN Put(lastEnd, c.id, current_ts)
                           ELSE lastEnd
             /\ retry' = IF c.out = "sent" THEN Remove(retry, c.id)
                         ELSE IF Failed(c.out)
                         THEN Put(retry, c.id,
                                  [start |-> c.last_ts, at |-> current_ts,
                                   source |-> WindowSource(file, state, c.id)])
                         ELSE retry
             /\ IF Raised(c.out)
                THEN /\ pc' = "aborted"
                     /\ exitReason' = c.out
                     /\ idx' = idx
                ELSE /\ pc' = "loop"
                     /\ exitReason' = exitReason
                     /\ idx' = idx + 1
    /\ UNCHANGED <<config_file, runNo, config, current_ts, day_of_week,
                   subaccount_data, writes, fatal, call, ret>>

\* The rewrite of the state file after the loop, lines 472-477
WriteState ==
    /\ pc = "loop"
    /\ idx > Len(config)
    /\ file' = DumpState(state)
    /\ writes' = writes + 1
    /\ pc' = "done"
    /\ exitReason' = "exit:0"
    /\ UNCHANGED <<config_file, runNo, config, current_ts, day_of_week, state, subaccount_data,
                   idx, log, lastEnd, retry, fatal, call, ret>>

Next == StartRun \/ ProcessSubaccount \/ WriteState

Spec == Init /\ [][Next]_vars

(***************************************************************************)
(* The runs with the final write in its steps and a process that can be    *)
(* killed.  open(SYNC_STATE, "w") truncates the file in place; json.dump   *)
(* fills a buffer that reaches the disk in blocks; flush and fsync push    *)
(* out the rest.  The source writes to SYNC_STATE itself, not to a         *)
(* temporary file that is renamed.                                         *)
(***************************************************************************)
Truncated == [kind |-> "empty", map |-> EmptyMap]

CutShort == [kind |-> "partial", map |-> EmptyMap]

\* line 473: open(SYNC_STATE, "w")
OpenStateFile ==
    /\ pc = "loop"
    /\ idx > Len(config)
    /\ file' = Truncated
    /\ writes' = writes + 1
    /\ pc' = "write"
    /\ UNCHANGED <<config_file, runNo, exitReason, config, current_ts, day_of_week, state,
                   subaccount_data, idx, log, lastEnd, retry, fatal, call, ret>>

\* lines 474-477: json.dump, flush, fsync and the close of the with block
DumpStateFile ==
    /\ pc = "write"
    /\ file' = DumpState(state)
    /\ pc' = "done"
    /\ exitReason' = "exit:0"
    /\ UNCHANGED <<config_file, runNo, config, current_ts, day_of_week, state, subaccount_data,
                   idx, log, lastEnd, retry, writes, fatal, call, ret>>

\* The process is killed (signal, power loss) in the loop or between the
\* open and the end of the write; what had left the buffer stays on disk
Kill ==
    /\ pc \in {"loop", "write"}
    /\ file' \in (IF pc = "write" THEN {file, CutShort} ELSE {file})
    /\ pc' = "aborted"
    /\ exitReason' = "killed"
    /\ UNCHANGED <<config_file, runNo, config, current_ts, day_of_week, state, subaccount_data,
                   idx, log, lastEnd, retry, writes, fatal, call, ret>>

NextCrash == StartRun \/ ProcessSubaccount \/ OpenStateFile \/ DumpStateFile \/ Kill

SpecCrash == Init /\ [][NextCrash]_vars

(***************************************************************************)
(* Unit harness: one call of a function on arguments drawn at the start    *)
(***************************************************************************)
RunsIdle ==
    /\ file = [kind |-> "missing", map |-> EmptyMap]
    /\ config_file = <<>>
    /\ runNo = 0
    /\ pc = "idle"
    /\ exitReason = "none"
    /\ config = <<>>
    /\ current_ts = 0
    /\ day_of_week = 1
    /\ state = NoState
    /\ subaccount_data = EmptyMap
    /\ idx = 1
    /\ log = <<>>
    /\ lastEnd = EmptyMap
    /\ retry = EmptyMap
    /\ writes = 0
    /\ fatal = "none"

\* Servers the fetcher is called on: a failing probe; a stable server
\* holding the records 1..n of which page request failAt fails; servers
\* that put fewer records in a page than the Limit asked for; and servers
\* whose probe reported a count that is not the number of records served
Numbered(n) == [i \in 1..n |-> i]

FetchServers ==
    {FailingProbe(k) : k \in ProbeKinds \ {"ok"}}
    \cup {StableServer(Numbered(n), 0) : n \in 0..MaxCount}
    \cup {Server("ok", n, Numbered(n), BATCH_LIMIT, f, k) :
            n \in {0, 1, BATCH_LIMIT, MaxCount}, f \in 1..3, k \in PageFailKinds}
    \cup {Server("ok", c, Numbered(n), cap, 0, "none") :
            c \in 0..MaxHeld, n \in 0..MaxHeld, cap \in 1..2}
    \cup {Server("ok", MaxCount, Numbered(n), cap, 0, "none") :
            n \in {BATCH_LIMIT + 50, MaxCount}, cap \in {BATCH_LIMIT \div 2, BATCH_LIMIT}}

InitFetch ==
    /\ RunsIdle
    /\ call \in {[fn |-> "fetch", srv |-> srv] : srv \in FetchServers}
    /\ ret = IdleCall

\* get_mailjet_data_list, lines 47-76
DoFetch ==
    /\ call.fn = "fetch"
    /\ ret = IdleCall
    /\ ret' = [fn |-> "fetch", result |-> get_mailjet_data_list(call.srv)]
    /\ UNCHANGED <<runVars, call>>

NextFetch == DoFetch

SpecFetch == InitFetch /\ [][NextFetch]_vars

\* Subaccounts send_report is called for: valid entries with every setting
\* of the two skip flags, on a profile with and without its own flag, and
\* entries on profiles that itemize every status and none
FlagValues == {"absent", "true", "false"}

SendSubaccounts ==
    { ValidateSubaccount(Entry("a", pr, "ok", "absent", nd, ndt)) :
        pr \in {"std", "quiet"}, nd \in FlagValues, ndt \in FlagValues }
    \cup { ValidateSubaccount(Entry("a", pr, "ok", "absent", "absent", "absent")) :
             pr \in {"full", "plain"} }

SendMessages ==
    Messages \cup {Without(FullRecord(1, "bounce"), "ID"), FullRecord(2, "bounce")}

SendMessageLists == UNION {[1..n -> SendMessages] : n \in 0..(MaxRecs + 1)}

InitSend ==
    /\ RunsIdle
    /\ call \in {[fn |-> "send", subaccount |-> sub, messages |-> l, http |-> h] :
                   sub \in SendSubaccounts, l \in SendMessageLists, h \in HttpOutcomes}
    /\ ret = IdleCall

\* The compositor and send_report on one fetched list, lines 443-467
DoSend ==
    /\ call.fn = "send"
    /\ ret = IdleCall
    /\ LET composed == Compose(call.messages,
                               profiles[call.subaccount.profile].report_in_detail)
       IN  ret' = [fn |-> "send", stats |-> composed.stats,
                   details |-> composed.details,
                   result |-> send_report(call.subaccount, composed.stats,
                                          composed.details, call.http)]
    /\ UNCHANGED <<runVars, call>>

NextSend == DoSend

SpecSend == InitSend /\ [][NextSend]_vars

(***************************************************************************)
(* Properties                                                              *)
(***************************************************************************)
\* The watermark a state file holds for id, as a sequence of length 0 or 1
Watermark(f, id) ==
    IF f.kind = "map" /\ id \in DOMAIN f.map THEN <<f.map[id]>> ELSE <<>>

\* This step is a pass of the loop
CycleStep == pc = "loop" /\ Len(log') = Len(log) + 1

Last(seq) == seq[Len(seq)]

\* The cycle computed a window
HasWindow(e) == e.out = "sent" \/ Failed(e.out)

\* C1: the windows of the reports dispatched for one subaccount are
\* contiguous: a dispatched report's window starts at the end of the window
\* of the report dispatched before it for the same subaccount.
C1_WindowsContiguous ==
    [][ (CycleStep /\ Last(log').out = "sent" /\ Last(log').id \in DOMAIN lastEnd)
            => Last(log').last_ts = lastEnd[Last(log').id] ]_vars

\* C2: the watermark the state file holds for a subaccount never decreases
\* (and is never lost), whatever was loaded and whatever the clock reads.
C2_WatermarkMonotonic ==
    [][ \A id \in Ids :
          Watermark(file, id) # <<>>
            => /\ Watermark(file', id) # <<>>
               /\ Watermark(file', id)[1] >= Watermark(file, id)[1] ]_vars

\* C3: a watermark changes only through a cycle in which send_report
\* returned true for that subaccount: a pass of the loop changes the
\* in-memory state only then and only at that id, to current_ts, and the
\* state file changes only at ids dispatched in the run.
C3_AdvanceOnlyOnDispatch ==
    [][ /\ (pc = "loop" /\ state' # state)
            => /\ CycleStep
               /\ Last(log').out = "sent"
               /\ state' = [state EXCEPT !.map = Put(state.map, Last(log').id,
                                                     current_ts)]
        /\ \A id \in Ids :
             Watermark(file', id) # Watermark(file, id)
               => /\ \E i \in 1..Len(log) : log[i].out = "sent" /\ log[i].id = id
                  /\ Watermark(file', id) = <<current_ts>> ]_vars

\* C3 witness: a run with a failed send has written the state file, and the
\* file still holds the start of the failed window as the watermark.
C3_Witness ==
    /\ pc = "done"
    /\ \E i \in 1..Len(log) :
         /\ log[i].out \in {"send_failed", "policy_skip", "fetch_failed"}
         /\ Watermark(file, log[i].id) = <<log[i].last_ts>>
         /\ log[i].last_ts # current_ts

Ceil(n, d) == (n + d - 1) \div d

\* C4: on a stable server holding N records (its probe reports N) the
\* fetcher returns exactly those records in server order, the empty list
\* for N = 0, and when the server fills its pages up to the Limit of 200 it
\* issues, for N >= 1, Ceil(N / 200) page requests at offsets 0, 200, 400, ...
C4_PaginationComplete ==
    (ret.fn = "fetch" /\ call.srv.probe = "ok" /\ call.srv.failAt = 0
     /\ call.srv.count = Len(call.srv.recs))
        => LET N == Len(call.srv.recs)
               r == ret.result
           IN  /\ r.kind = "list"
               /\ r.data = call.srv.recs
               /\ (N >= 1 /\ call.srv.cap = BATCH_LIMIT)
                    => r.reqs = [i \in 1..Ceil(N, BATCH_LIMIT) |->
                                    (i - 1) * BATCH_LIMIT]

\* C4 witness: 450 records fetched with three page requests
C4_Witness ==
    /\ ret.fn = "fetch"
    /\ call.srv.probe = "ok" /\ call.srv.failAt = 0
    /\ call.srv.cap = BATCH_LIMIT /\ call.srv.count = 450
    /\ Len(call.srv.recs) = 450
    /\ ret.result.reqs = <<0, 200, 400>>
    /\ Len(ret.result.data) = 450

\* C5: the fetcher is fail-closed: when the count probe or the first page
\* request fails, it returns None.
C5_FailClosed ==
    (ret.fn = "fetch" /\ (call.srv.probe # "ok" \/ call.srv.failAt = 1))
        => ret.result.kind = "none"

ProviderFailure(out) == out \in {"fetch_failed", "raise:fetch", "send_failed"}

\* C6: a provider failure in one cycle does not end the run: the loop goes
\* on to the next entry.
C6_ProviderFailureIsolated ==
    \A i \in 1..Len(log) : ProviderFailure(log[i].out) => pc # "aborted"

\* C7: a malformed entry is skipped as invalid and the run goes on.
C7_MalformedEntrySkipped ==
    \A i \in 1..Len(log) :
        ~config[i].valid => (log[i].out = "invalid" /\ pc # "aborted")

\* The flag as the claim words it: the subaccount's own setting, else the
\* profile's
FlagInEffect(sub, key) ==
    \/ sub[key] = "true"
    \/ sub[key] = "absent" /\ profiles[sub.profile][key] = "true"

PolicySkips(sub, stats, details) ==
    \/ FlagInEffect(sub, "skip_if_no_data") /\ DOMAIN stats = {}
    \/ FlagInEffect(sub, "skip_if_no_details") /\ DOMAIN details = {}

\* C8: send_report returns false without a send request exactly when the
\* skip policy applies; otherwise a send request is issued.
C8_SkipPolicy ==
    ret.fn = "send"
        => IF PolicySkips(call.subaccount, ret.stats, ret.details)
           THEN ret.result.kind = "false" /\ ~ret.result.posted
           ELSE ret.result.posted

\* This step rewrites the state file
WriteStep == pc = "loop" /\ pc' = "done"

\* C9 as stated: a second run in which the provider has no records for any
\* subaccount leaves every persisted watermark as it was.
C9_ReplayUnchanged ==
    [][ (WriteStep /\ runNo >= 2 /\ \A i \in 1..Len(log) : log[i].n = 0)
            => \A id \in Ids : Watermark(file', id) = Watermark(file, id) ]_vars

\* C9 amended: a second run leaves the persisted watermark of a subaccount
\* as it was when each of its cycles fetched no record under a skip flag
\* in effect (skip_if_no_data or skip_if_no_details).
C9_ReplayUnchangedUnderSkip ==
    [][ (WriteStep /\ runNo >= 2)
            => \A id \in Ids :
                 (\A i \in 1..Len(log) :
                     (log[i].id = id /\ HasWindow(log[i]))
                        => /\ log[i].n = 0
                           /\ \/ FlagInEffect(config[i], "skip_if_no_data")
                              \/ FlagInEffect(config[i], "skip_if_no_details"))
                 => Watermark(file', id) = Watermark(file, id) ]_vars

\* C9 witness: the second run has skipped an empty report and written the
\* state file, which holds the watermark the cycle started from.
C9_Witness ==
    /\ pc = "done" /\ runNo = 2
    /\ \E i \in 1..Len(log) :
         /\ log[i].out = "policy_skip" /\ log[i].n = 0
         /\ Watermark(file, log[i].id) = <<log[i].last_ts>>
         /\ \A j \in 1..Len(log) : log[j].id = log[i].id => log[j].out = "policy_skip"

\* C10 as stated: the run after a failed cycle uses the start of the failed
\* window again, with or without an entry in the state file.
C10_RetrySameStart ==
    \A i \in 1..Len(log) :
        (HasWindow(log[i]) /\ log[i].prior.source \in {"file", "default"}
         /\ log[i].prior.at < current_ts)
            => log[i].last_ts = log[i].prior.start

\* C10 amended: when the start of the failed window was the entry of the
\* state file, the next run uses it again; when there was no entry, the
\* failed run used t1 - 86400 * default_max_report_days and the next run
\* uses t2 - 86400 * default_max_report_days.
C10_RetryFromFileEntry ==
    \A i \in 1..Len(log) :
        (HasWindow(log[i]) /\ log[i].prior.at < current_ts)
            => /\ log[i].prior.source = "file"
                    => log[i].last_ts = log[i].prior.start
               /\ log[i].prior.source = "default"
                    => /\ log[i].last_ts = default_last_ts(current_ts)
                       /\ log[i].prior.start = default_last_ts(log[i].prior.at)

\* C10 witness: a cycle retries a window that failed in an earlier run and
\* started at the entry of the state file.
C10_Witness ==
    \E i \in 1..Len(log) :
        /\ HasWindow(log[i])
        /\ log[i].prior.source = "file"
        /\ log[i].prior.at < current_ts
        /\ log[i].last_ts = log[i].prior.start

\* C11: a state file that holds null, or has empty content, is not fatal:
\* the run starts with an empty watermark mapping, no cycle fails on the
\* state, and the run ends by writing a mapping to the state file.
C11_NullStateStartsFresh ==
    [][ file.kind \in {"null", "empty"}
          => /\ runNo' = runNo + 1
                  => /\ exitReason' # "raise:state_json"
                     /\ pc' = "loop" => state' = NoState
             /\ CycleStep
                  => /\ Last(log').out # "raise:state"
                     /\ (HasWindow(Last(log')) /\ state = NoState)
                            => Last(log').last_ts = default_last_ts(current_ts)
             /\ WriteStep => file'.kind = "map" ]_vars

\* C12: the state file is written atomically: whenever the content of the
\* file on disk changes, also when the process is killed during the final
\* write, the new content is the complete mapping of this run.
C12_AtomicWrite ==
    [][ file' # file => file' = DumpState(state) ]_vars

\* C13: a run that is not aborted writes the state file exactly once, after
\* the last pass of the loop; no other step of a run touches the file, so a
\* run that stops before the write leaves the file as the run found it.
C13_WrittenOnceAfterLoop ==
    [][ /\ (file' # file \/ writes' > writes)
            => /\ pc = "loop" /\ idx > Len(config) /\ Len(log) = Len(config)
               /\ writes = 0 /\ writes' = 1
               /\ pc' = "done"
        /\ pc' = "done" => writes' = 1
        /\ pc' = "aborted" => (writes' = 0 /\ file' = file) ]_vars

\* C13 witness: the second run has dispatched a report in its loop and
\* then written the state file, once.
C13_Witness ==
    /\ pc = "done" /\ runNo = 2 /\ writes = 1
    /\ Len(log) = NumSub
    /\ log[1].out = "sent"
    /\ file = DumpState(state)
    /\ Watermark(file, log[1].id) = <<current_ts>>

\* C14: a run that meets a fatal condition (credentials or paths unset,
\* configuration file missing or empty, no profiles, no subaccount reports,
\* failed directory fetch) ends before the loop: no cycle has run, no
\* watermark has changed, no report was dispatched, the state file is not
\* written.
C14_FatalEndsBeforeLoop ==
    [][ fatal' # "none"
          => /\ pc' = "aborted"
             /\ log' = <<>>
             /\ writes' = 0
             /\ file' = file
             /\ lastEnd' = lastEnd ]_vars

\* C14 witness: after a first run that dispatched and saved a watermark,
\* the second run ends on a failed directory fetch; the file is as the
\* first run left it.
C14_Witness ==
    /\ runNo = 2 /\ pc = "aborted" /\ fatal = "directory"
    /\ exitReason = "exit:directory"
    /\ log = <<>> /\ writes = 0
    /\ \E id \in DOMAIN lastEnd : Watermark(file, id) = <<lastEnd[id]>>

\* The digits of a report_days mask as the claim reads it: the weekday
\* codes the string holds
MaskHolds(mask, d) ==
    \/ mask = "01234" /\ d \in 0..4
    \/ mask = "135" /\ d \in {1, 3, 5}

\* The schedule mask of a validated entry: its own report_days, else the
\* global default
ScheduleMask(raw) ==
    IF raw.report_days = "absent" THEN report_days_default ELSE raw.report_days

\* C15: the cycle of a valid subaccount whose schedule mask does not hold
\* today's ISO weekday is skipped: no fetch and no dispatch are issued and
\* the state in memory is left as it was.
C15_ScheduleGating ==
    [][ (CycleStep /\ config[idx].valid
         /\ ~MaskHolds(ScheduleMask(config_file[idx]), day_of_week))
            => /\ Last(log').out = "unscheduled"
               /\ ~HasWindow(Last(log')) /\ Last(log').n = 0
               /\ state' = state /\ file' = file
               /\ lastEnd' = lastEnd
               /\ pc' = "loop" /\ idx' = idx + 1 ]_vars

\* C15 witness: on a Tuesday (weekday 2) the entry with report_days "135"
\* was skipped, the run went on and wrote the state file, which holds for
\* that subaccount what it held before.
C15_Witness ==
    /\ pc = "done" /\ day_of_week = 2
    /\ \E i \in 1..Len(log) :
         /\ config[i].valid /\ config[i].report_days = "135"
         /\ log[i].out = "unscheduled"
         /\ Watermark(file, IdOf(config[i].name)) # <<>>
         /\ Watermark(file, IdOf(config[i].name)) # <<current_ts>>

RECURSIVE SumOver(_, _)
SumOver(m, S) ==
    IF S = {} THEN 0
    ELSE LET x == CHOOSE y \in S : TRUE IN m[x] + SumOver(m, S \ {x})

\* The records of msgs with status s, in the order of msgs
WithStatus(msgs, s) == SelectSeq(msgs, LAMBDA m : m.Status = s)

\* row is the itemized form of the record rec: every field the record
\* holds under its report name, and nothing else
RowOf(row, rec) ==
    /\ DOMAIN row = {MESSAGE_FIELDS[f] : f \in DOMAIN rec}
    /\ \A f \in DOMAIN rec : row[MESSAGE_FIELDS[f]] = rec[f]

\* C16: over the fetched records, stats counts every record once under its
\* status (the counts sum to the number of records), and details has an
\* entry for status s exactly when s is in report_in_detail and some record
\* has status s, with one row per such record in fetch order.
C16_Aggregation ==
    ret.fn = "send"
        => LET msgs == call.messages
               wanted == profiles[call.subaccount.profile].report_in_detail
               seen == {msgs[i].Status : i \in 1..Len(msgs)}
           IN  /\ DOMAIN ret.stats = seen
               /\ \A s \in seen : ret.stats[s] = Len(WithStatus(msgs, s))
               /\ SumOver(ret.stats, DOMAIN ret.stats) = Len(msgs)
               /\ DOMAIN ret.details = seen \cap wanted
               /\ \A s \in DOMAIN ret.details :
                    /\ Len(ret.details[s]) = Len(WithStatus(msgs, s))
                    /\ \A k \in 1..Len(ret.details[s]) :
                         RowOf(ret.details[s][k], WithStatus(msgs, s)[k])

\* C16 witness: two different bounce records were itemized in fetch order
\* and counted, on a profile that itemizes bounces.
C16_Witness ==
    /\ ret.fn = "send"
    /\ call.messages = <<FullRecord(2, "bounce"), FullRecord(1, "bounce")>>
    /\ ret.stats = [s \in {"bounce"} |-> 2]
    /\ Len(ret.details["bounce"]) = 2
    /\ ret.details["bounce"][1].id = 2
    /\ ret.details["bounce"][2].id = 1

\* The page requests of a returned list, read against the server: request
\* i asked for offset reqs[i] and got PageCount records
Returned == ret.fn = "fetch" /\ ret.result.kind = "list"

Served(i) == PageCount(call.srv, ret.result.reqs[i])

OffsetAfter(i) == ret.result.reqs[i] + Served(i)

\* C17 as stated: the loop stops as soon as a page holds fewer than 200
\* records or the offset reaches the probed count: every page but the last
\* is full and leaves the offset below the count.
C17_StopsOnShortPage ==
    Returned
        => LET reqs == ret.result.reqs
           IN  /\ \A i \in 1..(Len(reqs) - 1) :
                    Served(i) >= BATCH_LIMIT /\ OffsetAfter(i) < call.srv.count
               /\ \/ Served(Len(reqs)) < BATCH_LIMIT
                  \/ OffsetAfter(Len(reqs)) >= call.srv.count

\* C17 amended: the loop stops as soon as a page holds no record or the
\* offset reaches the probed count: every page but the last holds a record
\* and leaves the offset below the count, also when it is a short page,
\* and the next request asks for the offset reached.
C17_StopsOnEmptyPage ==
    Returned
        => LET reqs == ret.result.reqs
           IN  /\ reqs[1] = 0
               /\ \A i \in 1..(Len(reqs) - 1) :
                    /\ Served(i) > 0 /\ OffsetAfter(i) < call.srv.count
                    /\ reqs[i + 1] = OffsetAfter(i)
               /\ \/ Served(Len(reqs)) = 0
                  \/ OffsetAfter(Len(reqs)) >= call.srv.count

\* C17 witness: the server serves pages of 100 and holds 250 of the 450
\* records the probe counted: two short pages are followed by further
\* requests, and the empty page ends the loop.
C17_Witness ==
    /\ Returned
    /\ call.srv.cap = 100 /\ call.srv.count = 450 /\ Len(call.srv.recs) = 250
    /\ ret.result.reqs = <<0, 100, 200, 250>>
    /\ Len(ret.result.data) = 250

\* The record lacks one of the fields ID, ArrivedAt, ContactAlt, Subject
LacksField(rec) == ~({"ID", "ArrivedAt", "ContactAlt", "Subject"} \subseteq DOMAIN rec)

\* C18: a fetched record that lacks a field is itemized without it, and the
\* cycle still ends with the boolean of send_report: no exception leaves
\* the compositor or the dispatcher.
C18_MissingFieldTolerated ==
    (ret.fn = "send"
     /\ \E i \in 1..Len(call.messages) : LacksField(call.messages[i]))
        => /\ ret.result.kind \in {"true", "false"}
           /\ \A s \in DOMAIN ret.details :
                \A k \in 1..Len(ret.details[s]) :
                    RowOf(ret.details[s][k], WithStatus(call.messages, s)[k])

\* C19: the paging loop ends: while it goes on the offset strictly grows
\* and stays below the probed count, so it issues at most Max(1, count)
\* page requests, whatever the server holds beyond the count.
C19_PagingTerminates ==
    (ret.fn = "fetch" /\ call.srv.probe = "ok")
        => LET reqs == ret.result.reqs
           IN  /\ Len(reqs) >= 1
               /\ Len(reqs) <= Max(1, call.srv.count)
               /\ \A i \in 1..(Len(reqs) - 1) :
                    reqs[i] < reqs[i + 1] /\ reqs[i + 1] < call.srv.count

\* C19 witness: the server holds more records than the probe counted and
\* serves them one per page: the loop ends with the request that reaches
\* the count.
C19_Witness ==
    /\ Returned
    /\ call.srv.cap = 1 /\ call.srv.count = 3 /\ Len(call.srv.recs) = 4
    /\ ret.result.reqs = <<0, 1, 2>>

\* A report was dispatched for id in this run
Dispatched(id) == \E i \in 1..Len(log) : log[i].out = "sent" /\ log[i].id = id

\* The entries a state file holds: none when it is missing or holds null
Held(f) == IF f.kind = "map" THEN f.map ELSE EmptyMap

\* C20: the state written at the end of a run keeps every entry the run
\* loaded: no key is removed, the value of an id that was not dispatched
\* in the run is unchanged, and a changed or new value is current_ts.
C20_StateKeysPreserved ==
    [][ WriteStep
          => /\ DOMAIN Held(file) \subseteq DOMAIN Held(file')
             /\ \A id \in DOMAIN Held(file') :
                  \/ id \in DOMAIN Held(file) /\ Held(file')[id] = Held(file)[id]
                  \/ Dispatched(id) /\ Held(file')[id] = current_ts ]_vars

\* C20 witness: a run rewrote the state file; the entry of a subaccount
\* that is no longer in the credential directory is as it was loaded while
\* another subaccount's entry was advanced.
C20_Witness ==
    /\ pc = "done"
    /\ "b" \notin DOMAIN subaccount_data
    /\ Watermark(file, IdOf("b")) # <<>>
    /\ Watermark(file, IdOf("b")) # <<current_ts>>
    /\ Dispatched(IdOf("a"))
    /\ Watermark(file, IdOf("a")) = <<current_ts>>

====
